---- MODULE Spec2Model ----
(***************************************************************************)
(* A model of clap-io (src/src/lib.rs): the Input and Output option types  *)
(* over the private Stream enum {File, Stdin, Stdout}, their construction  *)
(* from command-line tokens, their queries and renderings, and open, which *)
(* yields a file handle or a lock on the process's standard stream.        *)
(*                                                                         *)
(* Strings are sequences of code units.  An OsStr is a sequence of bytes;  *)
(* the units used here are ASCII bytes and the byte 0xFF, which is never   *)
(* part of valid UTF-8.  A String (the result of formatting) is a sequence *)
(* of code points; ASCII bytes and ASCII code points coincide.             *)
(***************************************************************************)
EXTENDS Integers, Sequences, FiniteSets, TLC

\* ------------------------------------------------------------------ bounds
MaxTokenLen == 2
MaxSel == 2
MaxHandles == 2
NumThreads == 2
MaxWrite == 2

\* --------------------------------------------------------------- constants
\* const STDIO: &str = "-";
STDIO == <<45>>
\* const STDIN: &str = "<stdin>";
STDIN == <<60, 115, 116, 100, 105, 110, 62>>
\* const STDOUT: &str = "<stdout>";
STDOUT == <<60, 115, 116, 100, 111, 117, 116, 62>>

\* "Failed to open input file `"
MsgHeadInput == <<70, 97, 105, 108, 101, 100, 32, 116, 111, 32, 111, 112, 101, 110, 32, 105, 110, 112, 117, 116, 32, 102, 105, 108, 101, 32, 96>>
\* "Failed to open output file `"
MsgHeadOutput == <<70, 97, 105, 108, 101, 100, 32, 116, 111, 32, 111, 112, 101, 110, 32, 111, 117, 116, 112, 117, 116, 32, 102, 105, 108, 101, 32, 96>>
\* "input", "output": the direction as the messages name it
InputLabel == <<105, 110, 112, 117, 116>>
OutputLabel == <<111, 117, 116, 112, 117, 116>>
\* "`. Cause: "
MsgCause == <<96, 46, 32, 67, 97, 117, 115, 101, 58, 32>>

\* The Display rendering of the io::Error the OS returns, by kind.
\* "No such file or directory (os error 2)"
NotFoundText == <<78, 111, 32, 115, 117, 99, 104, 32, 102, 105, 108, 101, 32, 111, 114, 32, 100, 105, 114, 101, 99, 116, 111, 114, 121, 32, 40, 111, 115, 32, 101, 114, 114, 111, 114, 32, 50, 41>>
\* "Permission denied (os error 13)"
PermissionDeniedText == <<80, 101, 114, 109, 105, 115, 115, 105, 111, 110, 32, 100, 101, 110, 105, 101, 100, 32, 40, 111, 115, 32, 101, 114, 114, 111, 114, 32, 49, 51, 41>>

OsErrorText(kind) ==
    IF kind = "NotFound" THEN NotFoundText ELSE PermissionDeniedText

\* ------------------------------------------------------------------ tokens
\* '-', 'a' and the non-UTF-8 byte 0xFF.
Units == {45, 97, 255}

TokensUpTo(n) == UNION {[1..k -> Units] : k \in 0..n}

\* Every token the argument parser may hand over, up to the bound, and the
\* two aliases.
AllTokens == TokensUpTo(MaxTokenLen) \cup {STDIN, STDOUT}

\* A &str is valid Unicode: no 0xFF byte.
IsUnicode(t) == \A k \in 1..Len(t) : t[k] < 128

\* Path::display(): a lossy rendering, every invalid byte becomes U+FFFD.
Lossy(p) == [k \in 1..Len(p) |-> IF p[k] < 128 THEN p[k] ELSE 65533]

\* s occurs in m as a contiguous substring.
Contains(m, s) ==
    \E k \in 0..(Len(m) - Len(s)) : \A j \in 1..Len(s) : m[k + j] = s[j]

\* --------------------------------------------------------------- variables
VARIABLES
    sel,        \* the Input/Output values alive, by slot
    ttyEnv,     \* whether the process's real stdin/stdout is a terminal now
    fs,         \* the file system: path -> [data, perm]
    hd,         \* the stream handles alive, by slot
    stdinLock,  \* std's Mutex around stdin: the holding thread, or 0
    stdoutLock, \* std's ReentrantLock around stdout: [owner, count]
    thr,        \* each thread: "run", "deadlock", "panic", "unreachable"
    last        \* the result of the last query, rendering or open

vars == <<sel, ttyEnv, fs, hd, stdinLock, stdoutLock, thr, last>>

SelIds == 1..MaxSel
HandleIds == 1..MaxHandles
Threads == 1..NumThreads

\* ------------------------------------------------------------- enum Stream
Stream_file(path) == [tag |-> "File", path |-> path, tty |-> FALSE]

\* atty::is(atty::Stream::Stdin) is read now and stored.
Stream_stdin == [tag |-> "Stdin", path |-> <<>>, tty |-> ttyEnv.stdin]

Stream_stdout == [tag |-> "Stdout", path |-> <<>>, tty |-> ttyEnv.stdout]

\* A faulty variant: the terminal is asked again at every call.
Stream_is_tty_live(s) ==
    \/ s.tag = "Stdin" /\ ttyEnv.stdin
    \/ s.tag = "Stdout" /\ ttyEnv.stdout

\* matches!(self, Self::Stdin { tty } | Self::Stdout { tty } if *tty)
Stream_is_tty(s) == s.tag \in {"Stdin", "Stdout"} /\ s.tty

\* Option<&Path>
Some(p) == [some |-> TRUE, v |-> p]
None == [some |-> FALSE, v |-> <<>>]

Stream_path(s) == IF s.tag = "File" THEN Some(s.path) ELSE None

\* impl fmt::Display for Stream
Stream_fmt(s) ==
    CASE s.tag = "File" -> Lossy(s.path)
      [] s.tag = "Stdin" -> STDIN
      [] s.tag = "Stdout" -> STDOUT

\* A faulty variant: the path goes through its lossy Display rendering.
Stream_into_os_lossy(s) ==
    CASE s.tag = "File" -> Lossy(s.path)
      [] s.tag = "Stdin" -> STDIN
      [] s.tag = "Stdout" -> STDOUT

\* impl From<Stream> for OsString
Stream_into_os(s) ==
    CASE s.tag = "File" -> s.path
      [] s.tag = "Stdin" -> STDIN
      [] s.tag = "Stdout" -> STDOUT

\* ------------------------------------------------- construction of a value
\* A faulty variant: the empty token is taken for the standard stream too.
Input_from_empty_is_stdin(s) ==
    IF s = STDIO \/ s = STDIN \/ s = <<>> THEN Stream_stdin ELSE Stream_file(s)

\* A faulty variant: both aliases are recognised.
Input_from_any_alias(s) ==
    IF s = STDIO \/ s = STDIN THEN Stream_stdin
    ELSE IF s = STDOUT THEN Stream_stdout ELSE Stream_file(s)

\* impl From<&OsStr> for Input
Input_from(s) ==
    IF s = STDIO \/ s = STDIN THEN Stream_stdin ELSE Stream_file(s)

\* impl From<&OsStr> for Output
Output_from(s) ==
    IF s = STDIO \/ s = STDOUT THEN Stream_stdout ELSE Stream_file(s)

\* A faulty variant: the default of the other direction.
Input_default_stdout == Stream_stdout

\* impl Default for Input / Output
Input_default == Stream_stdin

Output_default == Stream_stdout

\* The token a value was built from (kept for the statements only).
Tok(t) == [absent |-> FALSE, v |-> t]
AbsentTok == [absent |-> TRUE, v |-> <<>>]

NoStream == [tag |-> "none", path |-> <<>>, tty |-> FALSE]

NoSel ==
    [dir |-> "none", stream |-> NoStream, tok |-> AbsentTok, born |-> FALSE,
     made |-> 0]

\* struct Input(Stream) / struct Output(Stream).  tok records the token the
\* value was built from and born whether its standard stream was a terminal
\* then; made counts the handles open_file has yielded from this value, as
\* 0, 1 or 2 for two or more.
NewSel(dir, stream, tok) ==
    [dir |-> dir, stream |-> stream, tok |-> tok,
     born |-> \/ stream.tag = "Stdin" /\ ttyEnv.stdin
              \/ stream.tag = "Stdout" /\ ttyEnv.stdout,
     made |-> 0]

Live(i) == sel[i].dir # "none"

\* ---------------------------------------------------------- last result
NoLast ==
    [op |-> "none", res |-> "none", kind |-> "none", msg |-> <<>>,
     b |-> FALSE, opt |-> None, str |-> <<>>]

\* ------------------------------------------------------------------ Init
NoHandle ==
    [kind |-> "none", th |-> 0, path |-> <<>>, pos |-> 0, wrote |-> <<>>,
     sole |-> FALSE]

Booleans == {TRUE, FALSE}

TtyEnvs == [stdin : Booleans, stdout : Booleans]

\* "a"
PathA == <<97>>
\* 0xFF
PathFF == <<255>>
\* "aa": a file the process may neither read nor write
PathDenied == <<97, 97>>

OldData == {<<>>, <<7>>, <<7, 7>>}

InitCommon ==
    /\ sel = [i \in SelIds |-> NoSel]
    /\ hd = [h \in HandleIds |-> NoHandle]
    /\ stdinLock = 0
    /\ stdoutLock = [owner |-> 0, count |-> 0]
    /\ thr = [t \in Threads |-> "run"]
    /\ last = NoLast

\* ------------------------------------------------------ construct, clone
InputDefault(i) ==
    /\ ~Live(i)
    /\ sel' = [sel EXCEPT ![i] = NewSel("input", Input_default, AbsentTok)]
    /\ UNCHANGED <<ttyEnv, fs, hd, stdinLock, stdoutLock, thr, last>>

OutputDefault(i) ==
    /\ ~Live(i)
    /\ sel' = [sel EXCEPT ![i] = NewSel("output", Output_default, AbsentTok)]
    /\ UNCHANGED <<ttyEnv, fs, hd, stdinLock, stdoutLock, thr, last>>

InputFromOsStr(i, t) ==
    /\ ~Live(i)
    /\ sel' = [sel EXCEPT ![i] = NewSel("input", Input_from(t), Tok(t))]
    /\ UNCHANGED <<ttyEnv, fs, hd, stdinLock, stdoutLock, thr, last>>

OutputFromOsStr(i, t) ==
    /\ ~Live(i)
    /\ sel' = [sel EXCEPT ![i] = NewSel("output", Output_from(t), Tok(t))]
    /\ UNCHANGED <<ttyEnv, fs, hd, stdinLock, stdoutLock, thr, last>>

\* from_str: Ok(Self::from(s.as_ref())), s a &str
InputFromStr(i, t) ==
    /\ IsUnicode(t)
    /\ InputFromOsStr(i, t)

OutputFromStr(i, t) ==
    /\ IsUnicode(t)
    /\ OutputFromOsStr(i, t)

\* derive(Clone): a new value with the same Stream.
CloneSel(i, j) ==
    /\ Live(i)
    /\ ~Live(j)
    /\ sel' = [sel EXCEPT ![j] = [sel[i] EXCEPT !.made = 0]]
    /\ UNCHANGED <<ttyEnv, fs, hd, stdinLock, stdoutLock, thr, last>>

\* The value goes out of scope.
DropSel(i) ==
    /\ Live(i)
    /\ sel' = [sel EXCEPT ![i] = NoSel]
    /\ UNCHANGED <<ttyEnv, fs, hd, stdinLock, stdoutLock, thr, last>>

\* ----------------------------------------------------------------- queries
IsTty(i) ==
    /\ Live(i)
    /\ last' = [NoLast EXCEPT !.op = "is_tty", !.b = Stream_is_tty(sel[i].stream)]
    /\ UNCHANGED <<sel, ttyEnv, fs, hd, stdinLock, stdoutLock, thr>>

PathOf(i) ==
    /\ Live(i)
    /\ last' = [NoLast EXCEPT !.op = "path", !.opt = Stream_path(sel[i].stream)]
    /\ UNCHANGED <<sel, ttyEnv, fs, hd, stdinLock, stdoutLock, thr>>

Fmt(i) ==
    /\ Live(i)
    /\ last' = [NoLast EXCEPT !.op = "fmt", !.str = Stream_fmt(sel[i].stream)]
    /\ UNCHANGED <<sel, ttyEnv, fs, hd, stdinLock, stdoutLock, thr>>

\* impl From<Input> for OsString / From<Output> for OsString: by value.
IntoOsString(i) ==
    /\ Live(i)
    /\ last' = [NoLast EXCEPT !.op = "into_os", !.str = Stream_into_os(sel[i].stream)]
    /\ sel' = [sel EXCEPT ![i] = NoSel]
    /\ UNCHANGED <<ttyEnv, fs, hd, stdinLock, stdoutLock, thr>>

\* ------------------------------------------------------ the file system
\* The outcome of File::open(path): "ok" or the kind of the OS error.
OsOpen(p) ==
    IF p = <<>> \/ p \notin DOMAIN fs THEN "NotFound"
    ELSE IF ~fs[p].perm THEN "PermissionDenied" ELSE "ok"

\* The outcome of File::create(path).
OsCreate(p) ==
    IF p = <<>> THEN "NotFound"
    ELSE IF p \in DOMAIN fs /\ ~fs[p].perm THEN "PermissionDenied" ELSE "ok"

\* A faulty variant: the file is opened for writing without truncation.
FsAfterCreate_keep(p) ==
    [q \in DOMAIN fs \cup {p} |->
        IF q \in DOMAIN fs THEN fs[q] ELSE [data |-> <<>>, perm |-> TRUE]]

\* The file system after a successful File::create(path): the file exists
\* and is empty.
FsAfterCreate(p) ==
    [q \in DOMAIN fs \cup {p} |->
        IF q = p THEN [data |-> <<>>, perm |-> TRUE] ELSE fs[q]]

\* The contents after one byte b is written at offset pos (a hole left by
\* an earlier truncation reads as zeros).
WriteAt(data, pos, b) ==
    [k \in 1..(IF Len(data) > pos THEN Len(data) ELSE pos + 1) |->
        IF k = pos + 1 THEN b
        ELSE IF k <= Len(data) THEN data[k] ELSE 0]

\* ----------------------------------------------------------- the errors
\* io::Error::new(e.kind(), format!("Failed to open input file `{}`.
\* Cause: {}", path.display(), e))
Input_open_error(path, e) ==
    [kind |-> e,
     msg |-> MsgHeadInput \o Lossy(path) \o MsgCause \o OsErrorText(e)]

\* A faulty variant: the message of the input side is used.
Output_open_error_input(path, e) ==
    [kind |-> e,
     msg |-> MsgHeadInput \o Lossy(path) \o MsgCause \o OsErrorText(e)]

Output_open_error(path, e) ==
    [kind |-> e,
     msg |-> MsgHeadOutput \o Lossy(path) \o MsgCause \o OsErrorText(e)]

\* ---------------------------------------------------------- the handles
FreeHandles == {h \in HandleIds : hd[h].kind = "none"}

\* The slot a new handle takes.
NewHandle == CHOOSE h \in FreeHandles : \A g \in FreeHandles : h <= g

FileHandle(th, p, kind) ==
    [kind |-> kind, th |-> th, path |-> p, pos |-> 0, wrote |-> <<>>,
     sole |-> \A g \in HandleIds : ~(hd[g].kind = "FileW" /\ hd[g].path = p)]

LockHandle(th, kind) ==
    [kind |-> kind, th |-> th, path |-> <<>>, pos |-> 0, wrote |-> <<>>,
     sole |-> FALSE]

\* A faulty variant: open borrows the value.
BorrowSelf(s) == s

\* A method that takes self by value: the caller's value is gone.
TakeSelf(s) == NoSel

\* The handles of a thread are dropped as it unwinds.
Unwind(th) ==
    /\ hd' = [h \in HandleIds |-> IF hd[h].th = th THEN NoHandle ELSE hd[h]]
    /\ stdinLock' = IF stdinLock = th THEN 0 ELSE stdinLock
    /\ stdoutLock' = IF stdoutLock.owner = th
                     THEN [owner |-> 0, count |-> 0] ELSE stdoutLock

\* A faulty variant: one lock guards both standard streams.
StdinFree_shared == stdinLock = 0 /\ stdoutLock.owner = 0

\* Mutex::lock on stdin returns at once.
StdinFree == stdinLock = 0

\* A faulty variant: stdout is handed out without its lock.
StdoutFree_unlocked(th) == TRUE

\* ReentrantLock::lock on stdout returns at once for th.
StdoutFree(th) == stdoutLock.owner \in {0, th}

\* Box::leak(Box::new(io::stdin())).lock(): the thread waits while another
\* thread holds the lock; a thread that holds it already never returns
\* from the second lock (it deadlocks or panics).
LockStdin(th, i, op) ==
    /\ stdinLock \in {0, th}
    /\ sel' = [sel EXCEPT ![i] = TakeSelf(sel[i])]
    /\ IF StdinFree
       THEN /\ FreeHandles # {}
            /\ stdinLock' = th
            /\ hd' = [hd EXCEPT ![NewHandle] = LockHandle(th, "StdinLock")]
            /\ last' = [NoLast EXCEPT !.op = op, !.res = "ok"]
            /\ UNCHANGED <<stdoutLock, thr>>
       ELSE /\ last' = [NoLast EXCEPT !.op = op, !.res = "never"]
            /\ \/ thr' = [thr EXCEPT ![th] = "deadlock"]
                  /\ UNCHANGED <<hd, stdinLock, stdoutLock>>
               \/ thr' = [thr EXCEPT ![th] = "panic"]
                  /\ Unwind(th)

\* Box::leak(Box::new(io::stdout())).lock()
LockStdout(th, i, op) ==
    /\ StdoutFree(th)
    /\ FreeHandles # {}
    /\ sel' = [sel EXCEPT ![i] = TakeSelf(sel[i])]
    /\ stdoutLock' = [owner |-> th, count |-> stdoutLock.count + 1]
    /\ hd' = [hd EXCEPT ![NewHandle] = LockHandle(th, "StdoutLock")]
    /\ last' = [NoLast EXCEPT !.op = op, !.res = "ok"]
    /\ UNCHANGED <<stdinLock, thr>>

\* ------------------------------------------------------------------ Input
\* pub fn open_file(&self) -> Option<io::Result<File>>; keep tells what
\* becomes of the value (open moves it, open_file borrows it).
InputFile(th, i, op, keep) ==
    LET p == sel[i].stream.path
        r == OsOpen(p)
        e == Input_open_error(p, r)
    IN  /\ IF r = "ok"
           THEN /\ FreeHandles # {}
                /\ hd' = [hd EXCEPT ![NewHandle] = FileHandle(th, p, "FileR")]
                /\ last' = [NoLast EXCEPT !.op = op, !.res = "ok"]
           ELSE /\ hd' = hd
                /\ last' = [NoLast EXCEPT !.op = op, !.res = "err",
                               !.kind = e.kind, !.msg = e.msg]
        /\ sel' = [sel EXCEPT ![i] =
                     IF keep
                     THEN [@ EXCEPT !.made = IF r = "ok" /\ @ < 2 THEN @ + 1 ELSE @]
                     ELSE TakeSelf(@)]
        /\ UNCHANGED <<ttyEnv, fs, stdinLock, stdoutLock, thr>>

InputOpenFile(th, i) ==
    /\ thr[th] = "run"
    /\ sel[i].dir = "input"
    /\ IF sel[i].stream.tag = "File"
       THEN InputFile(th, i, "open_file", TRUE)
       ELSE /\ last' = [NoLast EXCEPT !.op = "open_file", !.res = "None"]
            /\ UNCHANGED <<sel, ttyEnv, fs, hd, stdinLock, stdoutLock, thr>>

\* pub fn open_stdin(self) -> Result<io::StdinLock<'static>, Self>
InputOpenStdin(th, i) ==
    /\ thr[th] = "run"
    /\ sel[i].dir = "input"
    /\ IF sel[i].stream.tag = "Stdin"
       THEN LockStdin(th, i, "open_stdin") /\ UNCHANGED <<ttyEnv, fs>>
       ELSE /\ last' = [NoLast EXCEPT !.op = "open_stdin", !.res = "ErrSelf"]
            /\ UNCHANGED <<sel, ttyEnv, fs, hd, stdinLock, stdoutLock, thr>>

\* pub fn open(self) -> io::Result<Box<dyn Read + 'static>>
InputOpen(th, i) ==
    /\ thr[th] = "run"
    /\ sel[i].dir = "input"
    /\ CASE sel[i].stream.tag = "File" -> InputFile(th, i, "open", FALSE)
         [] sel[i].stream.tag = "Stdin" ->
                LockStdin(th, i, "open") /\ UNCHANGED <<ttyEnv, fs>>
         [] OTHER ->
                \* unreachable!("stdout is an output")
                /\ thr' = [thr EXCEPT ![th] = "unreachable"]
                /\ sel' = [sel EXCEPT ![i] = NoSel]
                /\ last' = [NoLast EXCEPT !.op = "open", !.res = "never"]
                /\ Unwind(th)
                /\ UNCHANGED <<ttyEnv, fs>>

\* ----------------------------------------------------------------- Output
OutputFile(th, i, op, keep) ==
    LET p == sel[i].stream.path
        r == OsCreate(p)
        e == Output_open_error(p, r)
    IN  /\ IF r = "ok"
           THEN /\ FreeHandles # {}
                /\ fs' = FsAfterCreate(p)
                /\ hd' = [h \in HandleIds |->
                            IF h = NewHandle THEN FileHandle(th, p, "FileW")
                            ELSE IF hd[h].kind = "FileW" /\ hd[h].path = p
                            THEN [hd[h] EXCEPT !.sole = FALSE]
                            ELSE hd[h]]
                /\ last' = [NoLast EXCEPT !.op = op, !.res = "ok"]
           ELSE /\ UNCHANGED <<fs, hd>>
                /\ last' = [NoLast EXCEPT !.op = op, !.res = "err",
                               !.kind = e.kind, !.msg = e.msg]
        /\ sel' = [sel EXCEPT ![i] =
                     IF keep
                     THEN [@ EXCEPT !.made = IF r = "ok" /\ @ < 2 THEN @ + 1 ELSE @]
                     ELSE TakeSelf(@)]
        /\ UNCHANGED <<ttyEnv, stdinLock, stdoutLock, thr>>

OutputOpenFile(th, i) ==
    /\ thr[th] = "run"
    /\ sel[i].dir = "output"
    /\ IF sel[i].stream.tag = "File"
       THEN OutputFile(th, i, "open_file", TRUE)
       ELSE /\ last' = [NoLast EXCEPT !.op = "open_file", !.res = "None"]
            /\ UNCHANGED <<sel, ttyEnv, fs, hd, stdinLock, stdoutLock, thr>>

\* pub fn open_stdout(self) -> Result<io::StdoutLock<'static>, Self>
OutputOpenStdout(th, i) ==
    /\ thr[th] = "run"
    /\ sel[i].dir = "output"
    /\ IF sel[i].stream.tag = "Stdout"
       THEN LockStdout(th, i, "open_stdout") /\ UNCHANGED <<ttyEnv, fs>>
       ELSE /\ last' = [NoLast EXCEPT !.op = "open_stdout", !.res = "ErrSelf"]
            /\ UNCHANGED <<sel, ttyEnv, fs, hd, stdinLock, stdoutLock, thr>>

\* pub fn open(self) -> io::Result<Box<dyn Write + 'static>>
OutputOpen(th, i) ==
    /\ thr[th] = "run"
    /\ sel[i].dir = "output"
    /\ CASE sel[i].stream.tag = "File" -> OutputFile(th, i, "open", FALSE)
         [] sel[i].stream.tag = "Stdout" ->
                LockStdout(th, i, "open") /\ UNCHANGED <<ttyEnv, fs>>
         [] OTHER ->
                \* unreachable!("stdin is an input")
                /\ thr' = [thr EXCEPT ![th] = "unreachable"]
                /\ sel' = [sel EXCEPT ![i] = NoSel]
                /\ last' = [NoLast EXCEPT !.op = "open", !.res = "never"]
                /\ Unwind(th)
                /\ UNCHANGED <<ttyEnv, fs>>

\* ------------------------------------------------------ using the handles
\* One byte is written through a handle on a file (File is unbuffered).
WriteByte(h) ==
    /\ hd[h].kind = "FileW"
    /\ thr[hd[h].th] = "run"
    /\ Len(hd[h].wrote) < MaxWrite
    /\ fs' = [fs EXCEPT ![hd[h].path].data = WriteAt(@, hd[h].pos, 1)]
    /\ hd' = [hd EXCEPT ![h].pos = @ + 1, ![h].wrote = Append(@, 1)]
    /\ UNCHANGED <<sel, ttyEnv, stdinLock, stdoutLock, thr, last>>

\* The handle is dropped: a file is closed, a lock is released.
DropHandle(h) ==
    /\ hd[h].kind # "none"
    /\ thr[hd[h].th] = "run"
    /\ hd' = [hd EXCEPT ![h] = NoHandle]
    /\ stdinLock' = IF hd[h].kind = "StdinLock" THEN 0 ELSE stdinLock
    /\ stdoutLock' =
         IF hd[h].kind # "StdoutLock" THEN stdoutLock
         ELSE IF stdoutLock.count = 1 THEN [owner |-> 0, count |-> 0]
         ELSE [stdoutLock EXCEPT !.count = @ - 1]
    /\ UNCHANGED <<sel, ttyEnv, fs, thr, last>>

\* The environment: a standard stream is redirected to or from a terminal.
SetTty(e) ==
    /\ e # ttyEnv
    /\ ttyEnv' = e
    /\ UNCHANGED <<sel, fs, hd, stdinLock, stdoutLock, thr, last>>

\* -------------------------------------------- classification on its own
InitClassify ==
    /\ InitCommon
    /\ ttyEnv \in TtyEnvs
    /\ fs = <<>>

NextClassify ==
    \/ InputDefault(1)
    \/ OutputDefault(1)
    \/ \E t \in AllTokens : InputFromOsStr(1, t)
    \/ \E t \in AllTokens : OutputFromOsStr(1, t)
    \/ \E t \in AllTokens : InputFromStr(1, t)
    \/ \E t \in AllTokens : OutputFromStr(1, t)
    \/ IsTty(1)
    \/ PathOf(1)
    \/ Fmt(1)
    \/ IntoOsString(1)
    \/ DropSel(1)

SpecClassify == InitClassify /\ [][NextClassify]_vars

\* --------------------------------------- the values before they are opened
LifeTokens == {STDIO, STDIN, STDOUT, PathA}

InitQuery ==
    /\ InitCommon
    /\ ttyEnv \in TtyEnvs
    /\ fs = [q \in {PathA} |-> [data |-> <<7>>, perm |-> TRUE]]

NextQuery ==
    \/ \E i \in SelIds : InputDefault(i)
    \/ \E i \in SelIds : OutputDefault(i)
    \/ \E i \in SelIds, t \in LifeTokens : InputFromOsStr(i, t)
    \/ \E i \in SelIds, t \in LifeTokens : OutputFromOsStr(i, t)
    \/ \E i \in SelIds, t \in LifeTokens : InputFromStr(i, t)
    \/ \E i \in SelIds, t \in LifeTokens : OutputFromStr(i, t)
    \/ \E i, j \in SelIds : CloneSel(i, j)
    \/ \E i \in SelIds : DropSel(i)
    \/ \E i \in SelIds : IsTty(i)
    \/ \E i \in SelIds : PathOf(i)
    \/ \E i \in SelIds : Fmt(i)
    \/ \E e \in TtyEnvs : SetTty(e)

SpecQuery == InitQuery /\ [][NextQuery]_vars

\* The slot a new value takes.
FirstFree == {i \in SelIds : ~Live(i) /\ \A j \in SelIds : Live(j) \/ i <= j}

\* ------------------------------------------- the variant of each direction
StdTokens == {STDIO, STDIN, STDOUT}

\* No file can be opened here: "<stdout>" is not there and "<stdin>" may not
\* be written.
InitDirection ==
    /\ InitCommon
    /\ ttyEnv = [stdin |-> TRUE, stdout |-> FALSE]
    /\ fs = [q \in {STDIN} |-> [data |-> <<7>>, perm |-> FALSE]]

NextDirection ==
    \/ \E i \in FirstFree : InputDefault(i)
    \/ \E i \in FirstFree : OutputDefault(i)
    \/ \E i \in FirstFree, t \in StdTokens : InputFromOsStr(i, t)
    \/ \E i \in FirstFree, t \in StdTokens : OutputFromOsStr(i, t)
    \/ \E i \in FirstFree, t \in StdTokens : InputFromStr(i, t)
    \/ \E i \in FirstFree, t \in StdTokens : OutputFromStr(i, t)
    \/ \E i \in SelIds, j \in FirstFree : CloneSel(i, j)
    \/ \E i \in SelIds : DropSel(i)
    \/ \E i \in SelIds : IsTty(i)
    \/ \E i \in SelIds : PathOf(i)
    \/ \E i \in SelIds : Fmt(i)
    \/ \E i \in SelIds : InputOpen(1, i)
    \/ \E i \in SelIds : OutputOpen(1, i)
    \/ \E h \in HandleIds : DropHandle(h)

SpecDirection == InitDirection /\ [][NextDirection]_vars

\* ------------------------------------------- values, locks and lifetimes

Init == InitDirection

Next ==
    \/ \E i \in FirstFree : InputDefault(i)
    \/ \E i \in FirstFree : OutputFromOsStr(i, STDIO)
    \/ \E i \in FirstFree : InputFromOsStr(i, STDOUT)
    \/ \E i \in FirstFree : OutputFromStr(i, STDIN)
    \/ \E i \in SelIds, j \in FirstFree : CloneSel(i, j)
    \/ \E i \in SelIds : DropSel(i)
    \/ \E th \in Threads, i \in SelIds : InputOpen(th, i)
    \/ \E th \in Threads, i \in SelIds : InputOpenStdin(th, i)
    \/ \E th \in Threads, i \in SelIds : OutputOpen(th, i)
    \/ \E th \in Threads, i \in SelIds : OutputOpenStdout(th, i)
    \/ \E h \in HandleIds : DropHandle(h)

Spec == Init /\ [][Next]_vars

\* ------------------------------------------------- files: open and fail
FsTokens == {<<>>, PathA, PathFF, PathDenied}

InitFs ==
    /\ InitCommon
    /\ ttyEnv = [stdin |-> TRUE, stdout |-> FALSE]
    /\ fs = [q \in {PathA, PathDenied} |->
               [data |-> <<7>>, perm |-> q = PathA]]

NextFs ==
    \/ InputDefault(1)
    \/ OutputDefault(1)
    \/ \E t \in FsTokens : InputFromOsStr(1, t)
    \/ \E t \in FsTokens : OutputFromOsStr(1, t)
    \/ InputOpen(1, 1)
    \/ InputOpenFile(1, 1)
    \/ OutputOpen(1, 1)
    \/ OutputOpenFile(1, 1)
    \/ \E h \in HandleIds : DropHandle(h)

SpecFs == InitFs /\ [][NextFs]_vars

\* ------------------------------------------------------ files: the contents
\* The file is there, with some contents, or it is not.
InitWrite ==
    /\ InitCommon
    /\ ttyEnv = [stdin |-> TRUE, stdout |-> FALSE]
    /\ \/ fs = <<>>
       \/ \E d \in OldData :
            fs = [q \in {PathA} |-> [data |-> d, perm |-> TRUE]]

NextWrite ==
    \/ InputFromOsStr(1, PathA)
    \/ OutputFromOsStr(1, PathA)
    \/ InputOpen(1, 1)
    \/ OutputOpen(1, 1)
    \/ OutputOpenFile(1, 1)
    \/ \E h \in HandleIds : WriteByte(h)
    \/ \E h \in HandleIds : DropHandle(h)

SpecWrite == InitWrite /\ [][NextWrite]_vars

\* ======================================================== the statements
\* The standard variant and the alias of a direction.
StdTag(dir) == IF dir = "input" THEN "Stdin" ELSE "Stdout"
Alias(dir) == IF dir = "input" THEN STDIN ELSE STDOUT

\* The token of x selects the standard stream of x's direction.
SelectsStd(x) == x.tok.absent \/ x.tok.v = STDIO \/ x.tok.v = Alias(x.dir)

\* x is the standard variant of its direction, seen through the queries.
IsStdVariant(x) ==
    /\ x.stream.tag = StdTag(x.dir)
    /\ Stream_path(x.stream) = None
    /\ Stream_fmt(x.stream) = Alias(x.dir)

\* x is the File variant with the path p and the display name name.
IsFileVariant(x, p, name) ==
    /\ x.stream.tag = "File"
    /\ Stream_path(x.stream) = Some(p)
    /\ Stream_fmt(x.stream) = name

\* C1, as stated: a value built from a non-empty token is the standard
\* variant of its direction (no path, display name the alias) when the token
\* is "-" or the alias, and otherwise the File variant whose path and display
\* name are exactly the token; a value built from the absent token is the
\* standard variant.
C1_Original ==
    \A i \in SelIds :
        (Live(i) /\ (sel[i].tok.absent \/ sel[i].tok.v # <<>>)) =>
            IF SelectsStd(sel[i]) THEN IsStdVariant(sel[i])
            ELSE IsFileVariant(sel[i], sel[i].tok.v, sel[i].tok.v)

\* C1, amended: as C1_Original, but the display name of the File variant is
\* the lossy rendering of the token (every byte that is not valid Unicode
\* shown as U+FFFD), which is the token itself when the token is valid
\* Unicode; the path is exactly the token.
C1_Classify ==
    \A i \in SelIds :
        (Live(i) /\ (sel[i].tok.absent \/ sel[i].tok.v # <<>>)) =>
            /\ IF SelectsStd(sel[i]) THEN IsStdVariant(sel[i])
               ELSE IsFileVariant(sel[i], sel[i].tok.v, Lossy(sel[i].tok.v))
            /\ IsUnicode(sel[i].tok.v) => Lossy(sel[i].tok.v) = sel[i].tok.v

\* An Input built from "<stdout>" is a file of that name, and its display
\* name has been asked for.
C1_Witness ==
    /\ Live(1)
    /\ sel[1].dir = "input"
    /\ sel[1].tok = Tok(STDOUT)
    /\ last.op = "fmt"
    /\ last.str = STDOUT

\* C2, as stated: a value built from the empty token is the standard variant
\* of its direction, not a File with an empty path.
C2_Original ==
    \A i \in SelIds :
        (Live(i) /\ sel[i].tok = Tok(<<>>)) =>
            sel[i].stream.tag = StdTag(sel[i].dir)

\* C2, amended: a value built from the empty token is the File variant with
\* the empty path, in both directions: path() is present and empty, the
\* display name is empty and is_tty() is false.
C2_EmptyIsFile ==
    \A i \in SelIds :
        (Live(i) /\ sel[i].tok = Tok(<<>>)) =>
            /\ IsFileVariant(sel[i], <<>>, <<>>)
            /\ ~Stream_is_tty(sel[i].stream)

\* An Output built from the empty token has been asked for its path.
C2_Witness ==
    /\ Live(1)
    /\ sel[1].dir = "output"
    /\ sel[1].tok = Tok(<<>>)
    /\ last.op = "path"
    /\ last.opt = Some(<<>>)

\* C3: an Input never holds the Stdout variant and an Output never holds the
\* Stdin variant, so no thread ever runs into the unreachable! branch of
\* open.
C3_Direction ==
    /\ \A i \in SelIds :
        /\ sel[i].dir = "input" => sel[i].stream.tag \in {"File", "Stdin"}
        /\ sel[i].dir = "output" => sel[i].stream.tag \in {"File", "Stdout"}
    /\ \A th \in Threads : thr[th] # "unreachable"

\* An Input built from "<stdout>" has been opened (as a file, which is not
\* there) while a clone of an Output built from "<stdin>" is alive.
C3_Witness ==
    /\ last.op = "open"
    /\ last.res = "err"
    /\ Contains(last.msg, InputLabel)
    /\ \A i \in SelIds : sel[i].dir = "output" /\ sel[i].tok = Tok(STDIN)

\* What a failed open of a file must look like: the kind of the OS error,
\* and a message with the direction, the path as shown, and the cause.
OpenError(label, shown, r) ==
    /\ last'.res = "err"
    /\ last'.kind = r
    /\ Contains(last'.msg, label)
    /\ Contains(last'.msg, shown)
    /\ Contains(last'.msg, OsErrorText(r))
    /\ UNCHANGED <<fs, hd>>

\* C4, as stated, for one step: open fails if and only if the value is a
\* File and the OS open (create) fails; the error has the OS error's kind and
\* a message with the direction, the literal path and the cause; open on a
\* standard variant returns a stream.
C4_StepOriginal ==
    \A th \in Threads, i \in SelIds :
        /\ InputOpen(th, i) =>
             IF sel[i].stream.tag = "File" /\ OsOpen(sel[i].stream.path) # "ok"
             THEN OpenError(InputLabel, sel[i].stream.path,
                            OsOpen(sel[i].stream.path))
             ELSE last'.res = "ok"
        /\ OutputOpen(th, i) =>
             IF sel[i].stream.tag = "File" /\ OsCreate(sel[i].stream.path) # "ok"
             THEN OpenError(OutputLabel, sel[i].stream.path,
                            OsCreate(sel[i].stream.path))
             ELSE last'.res = "ok"

\* C4, as stated: every step of open is as C4_StepOriginal says.
C4_Original == [][C4_StepOriginal]_vars

\* C4, amended, for one step: as C4_StepOriginal, but the message shows the
\* path in its lossy rendering (the literal path when it is valid Unicode),
\* and open on the Stdin variant returns no stream when its thread already
\* holds a standard-input handle: that call never returns (the thread
\* deadlocks or panics); it returns no error either.
C4_Step ==
    \A th \in Threads, i \in SelIds :
        /\ InputOpen(th, i) =>
             IF sel[i].stream.tag = "File" /\ OsOpen(sel[i].stream.path) # "ok"
             THEN OpenError(InputLabel, Lossy(sel[i].stream.path),
                            OsOpen(sel[i].stream.path))
             ELSE IF sel[i].stream.tag = "Stdin" /\ stdinLock = th
             THEN last'.res = "never" /\ thr'[th] \in {"deadlock", "panic"}
             ELSE last'.res = "ok"
        /\ OutputOpen(th, i) =>
             IF sel[i].stream.tag = "File" /\ OsCreate(sel[i].stream.path) # "ok"
             THEN OpenError(OutputLabel, Lossy(sel[i].stream.path),
                            OsCreate(sel[i].stream.path))
             ELSE last'.res = "ok"

\* C4, amended: every step of open is as C4_Step says.
C4_OpenErrors == [][C4_Step]_vars

\* An Output on a file the process may not write has been opened: the error
\* is PermissionDenied and names the output.
C4_Witness ==
    /\ last.op = "open"
    /\ last.res = "err"
    /\ last.kind = "PermissionDenied"
    /\ Contains(last.msg, OutputLabel)
    /\ Contains(last.msg, PathDenied)

StdinHandles == {h \in HandleIds : hd[h].kind = "StdinLock"}
StdoutHandles == {h \in HandleIds : hd[h].kind = "StdoutLock"}

\* C5, as stated: there are never two live handles on standard input, nor
\* two live handles on standard output.
C5_Original ==
    /\ Cardinality(StdinHandles) <= 1
    /\ Cardinality(StdoutHandles) <= 1

\* C5, amended: there are never two live handles on standard input, and all
\* live handles on standard output belong to one thread, the owner of the
\* lock (the lock on standard output is reentrant: its owner may open
\* standard output again and hold several handles).
C5_Locks ==
    /\ Cardinality(StdinHandles) <= 1
    /\ \A h \in StdinHandles : stdinLock = hd[h].th
    /\ \A h \in StdoutHandles : stdoutLock.owner = hd[h].th
    /\ stdoutLock.count = Cardinality(StdoutHandles)

\* A handle on standard input is alive while a clone of its Input waits to
\* be opened.
C5_Witness ==
    /\ hd[1].kind = "StdinLock"
    /\ \E i \in SelIds : sel[i].stream.tag = "Stdin"
    /\ \A th \in Threads : thr[th] = "run"

\* Standard input is opened by th from value i: the handle is there and the
\* lock of standard output and every thread are as they were.
C6_InputOpens(th, i) ==
    /\ InputOpen(th, i)
    /\ last'.res = "ok"
    /\ stdinLock' = th
    /\ UNCHANGED <<stdoutLock, thr>>

\* Standard output is opened by th from value i, likewise.
C6_OutputOpens(th, i) ==
    /\ OutputOpen(th, i)
    /\ last'.res = "ok"
    /\ stdoutLock'.owner = th
    /\ UNCHANGED <<stdinLock, thr>>

\* C6: the lock on standard input and the lock on standard output are
\* independent: whoever holds the other lock, a running thread opens
\* standard input when its lock is free, and standard output when its lock
\* is free or the thread's own; the open is not blocked, does not fail, and
\* leaves the other lock alone.
C6_Independent ==
    \A th \in Threads, i \in SelIds :
        (thr[th] = "run" /\ FreeHandles # {}) =>
            /\ (sel[i].stream.tag = "Stdin" /\ stdinLock = 0) =>
                 /\ ENABLED C6_InputOpens(th, i)
                 /\ ~ENABLED (InputOpen(th, i) /\ ~C6_InputOpens(th, i))
            /\ (sel[i].stream.tag = "Stdout" /\ stdoutLock.owner \in {0, th}) =>
                 /\ ENABLED C6_OutputOpens(th, i)
                 /\ ~ENABLED (OutputOpen(th, i) /\ ~C6_OutputOpens(th, i))

\* Both standard streams are held at once, standard output taken first.
C6_Witness ==
    /\ hd[1].kind = "StdoutLock"
    /\ hd[2].kind = "StdinLock"

\* C7, for one step: before any open, no step touches a file, a handle or a
\* lock; a query leaves the value as it is and returns what the value was
\* built with: is_tty() the terminal state at construction (false for a
\* File), path() and the display name those of the token.
C7_Step ==
    /\ UNCHANGED <<fs, hd, stdinLock, stdoutLock, thr>>
    /\ \A i \in SelIds :
        /\ IsTty(i) =>
             /\ sel' = sel
             /\ last'.b = sel[i].born
             /\ sel[i].stream.tag = "File" => ~last'.b
        /\ PathOf(i) =>
             /\ sel' = sel
             /\ last'.opt = IF SelectsStd(sel[i]) THEN None
                            ELSE Some(sel[i].tok.v)
        /\ Fmt(i) =>
             /\ sel' = sel
             /\ last'.str = IF SelectsStd(sel[i]) THEN Alias(sel[i].dir)
                            ELSE Lossy(sel[i].tok.v)

\* C7: until it is opened, a value is immutable and without side effects.
C7_Immutable == [][C7_Step]_vars

\* An Input on standard input was built on a terminal, standard input is no
\* terminal any more, and is_tty() has answered true.
C7_Witness ==
    /\ \E i \in SelIds : sel[i].stream.tag = "Stdin" /\ sel[i].born
    /\ \A i \in SelIds : Live(i) => sel[i].stream.tag = "Stdin"
    /\ ~ttyEnv.stdin
    /\ last.op = "is_tty"
    /\ last.b

\* C8, as stated: at most one stream handle is ever produced from one value.
C8_Original == \A i \in SelIds : sel[i].made <= 1

\* C8, amended: open consumes the value, whether it yields a stream or an
\* error, so open yields at most one stream from a value; open_file only
\* borrows the value, which stays and may yield further handles.
C8_Consumed ==
    [][\A th \in Threads, i \in SelIds :
          /\ (InputOpen(th, i) \/ OutputOpen(th, i)) => sel'[i] = NoSel
          /\ (InputOpenFile(th, i) \/ OutputOpenFile(th, i)) =>
                /\ sel'[i].stream = sel[i].stream
                /\ sel'[i].made >= sel[i].made]_vars

\* One Input has yielded a handle through open_file and another through
\* open, and is gone.
C8_Witness ==
    /\ last.op = "open"
    /\ last.res = "ok"
    /\ hd[1].kind = "FileR"
    /\ hd[2].kind = "FileR"
    /\ hd[1].path = hd[2].path
    /\ \A i \in SelIds : ~Live(i)

\* C9, for one state: the file behind a handle opened for writing, with no
\* other writer on its path since, holds exactly the bytes written through
\* the handle: it was created or emptied by the open.
C9_Contents ==
    \A h \in HandleIds :
        (hd[h].kind = "FileW" /\ hd[h].sole) =>
            /\ hd[h].path \in DOMAIN fs
            /\ fs[hd[h].path].data = hd[h].wrote

\* C9, for one step: opening an Input changes no file, nor does closing a
\* handle.
C9_Step ==
    /\ \A th \in Threads, i \in SelIds : InputOpen(th, i) => fs' = fs
    /\ \A h \in HandleIds : DropHandle(h) => fs' = fs

\* C9: opening a File Output creates or truncates the file at open, so that
\* what is written through the handle is all the file contains; opening a
\* File Input never changes a file.
C9_Truncates == [](C9_Contents) /\ [][C9_Step]_vars

\* A file has been opened for writing and two bytes were written: they are
\* its contents.
C9_Witness ==
    \E h \in HandleIds :
        /\ hd[h].kind = "FileW"
        /\ hd[h].sole
        /\ hd[h].path = PathA
        /\ hd[h].wrote = <<1, 1>>
        /\ fs[PathA].data = <<1, 1>>

\* C10: rendering a value as an OsString and building a value of the same
\* direction from it gives the same variant and the same path; so the
\* rendered default is read back as the standard stream.
C10_RoundTrip ==
    \A i \in SelIds :
        Live(i) =>
            LET x == sel[i].stream
                os == Stream_into_os(x)
                y == IF sel[i].dir = "input" THEN Input_from(os)
                     ELSE Output_from(os)
            IN  /\ y.tag = x.tag
                /\ Stream_path(y) = Stream_path(x)
                /\ sel[i].tok.absent => y.tag = StdTag(sel[i].dir)

\* The default Input was rendered, "<stdin>", and an Input was built from
\* the rendering: it is standard input.
C10_Witness ==
    /\ last.op = "into_os"
    /\ last.str = STDIN
    /\ Live(1)
    /\ sel[1].dir = "input"
    /\ sel[1].tok = Tok(STDIN)
    /\ sel[1].stream.tag = "Stdin"

====
